---- MODULE Spec2Model ----
(***************************************************************************)
(* A model of pipeline/fetch_terrain.py: area resolution, elevation-tile   *)
(* indexing and retrieval, nodata repair, vertical exaggeration, heightmap *)
(* and mesh synthesis, relief colouring and the map-overlay crop.          *)
(*                                                                         *)
(* Real-valued quantities are fixed-point integers: degrees are counted in *)
(* units of 1/DegScale degree, elevations in units of 1/Unit metre.        *)
(***************************************************************************)
EXTENDS Integers, Sequences, FiniteSets, TLC

VARIABLES
    pc,          \* position of the modelled run / which function has been applied
    bounds,      \* (south, west, north, east) in 1/DegScale degree, or None
    tiles,       \* result of get_srtm_tile_names: sequence of (name, lat, lon)
    raw,         \* the array read from the raster(s), before nodata repair
    nodata,      \* the raster's declared nodata value (src.nodata): <<v>>, or None
    data,        \* the array as repaired in place
    fusion,      \* which loader ran: "single" (load_and_resample) or "merge"
    elev_data,   \* the float32 elevation grid: [rows, cols, cells (row-major)]
    cell_size_m, \* the cell size handed to build_mesh
    args_vert_exag, \* --vert-exag: <<num, den>>, or None
    vert_exag,   \* the vertical exaggeration in use: <<num, den>>, or None
    heightmap,   \* scene_heights as written by tofile (row-major float32)
    mesh,        \* the result of build_mesh: [vertices, colors, faces], or None
    col_elev,    \* an elevation handed to elevation_to_color
    col_rgb,     \* its colour
    col_below,   \* the colour of the elevation 1/Unit metre below it
    ov_box,      \* the box handed to fetch_osm_overlay: [south, west, north, east]
    ov_zoom,     \* z
    ov_tiles,    \* [x_min, y_min, x_max, y_max, total_w, total_h], or None
    ov_crop,     \* the box handed to composite.crop: [left, top, right, bottom]
    args,        \* the parsed command line
    centre,      \* (lat, lon) of main, or None
    idx,         \* fetch_srtm_tiles: position of the loop in tiles (from 1)
    paths,       \* fetch_srtm_tiles: paths, each (cache, tile name)
    outcomes,    \* what happened to each tile attempted so far, in order
    fused,       \* load_srtm_tiles has been called
    elev_cache,  \* tile names with a non-empty .tif in the elevation package's cache
    own_cache,   \* tile names with a non-empty .hgt in cache_dir
    files,       \* the output files of the run
    exit_code,   \* the exit status of the run, or None while it runs
    overlay_result,  \* "none", "ok" (fetch_osm_overlay returned) or "failed"
    earlier      \* the outcomes of the earlier calls of fetch_srtm_tiles, in order

tileVars == <<bounds, tiles>>
repairVars == <<raw, nodata, data, fusion>>
meshVars == <<elev_data, cell_size_m, args_vert_exag, vert_exag, heightmap, mesh>>
colorVars == <<col_elev, col_rgb, col_below>>
overlayVars == <<ov_box, ov_zoom, ov_tiles, ov_crop>>
runVars == <<args, centre, idx, paths, outcomes, fused, elev_cache, own_cache, files,
             exit_code, overlay_result, earlier>>

\* Python's None; an optional value v that is present is the 1-tuple <<v>>
None == << >>

IdleTiles == bounds = None /\ tiles = << >>
IdleMesh ==
    /\ elev_data = None /\ cell_size_m = 0 /\ args_vert_exag = None
    /\ vert_exag = None /\ heightmap = << >> /\ mesh = None
IdleColor == col_elev = 0 /\ col_rgb = None /\ col_below = None
IdleOverlay == ov_box = None /\ ov_zoom = 0 /\ ov_tiles = None /\ ov_crop = None
IdleRun ==
    /\ args = None /\ centre = None /\ idx = 0 /\ paths = << >> /\ outcomes = << >>
    /\ fused = FALSE /\ elev_cache = {} /\ own_cache = {} /\ files = None
    /\ exit_code = None /\ overlay_result = "none" /\ earlier = << >>
IdleRepair == raw = << >> /\ nodata = None /\ data = << >> /\ fusion = "none"

(***************************************************************************)
(* Resolutions and bounds of the model.                                    *)
(***************************************************************************)
\* fixed-point units per degree
DegScale == 10000
\* the boxes of SpecTiles have corners in -MaxDeg .. MaxDeg degrees (plus fractions)
MaxDeg == 2
\* the arrays of SpecRepair hold 1 .. MaxCells cells
MaxCells == 4
\* the arrays of SpecRepair hold valid elevations 0 .. MaxRaw (and the sentinels)
MaxRaw == 2
\* fixed-point units per metre of elevation
Unit == 4
\* significand bits of the model's float32 (24 in IEEE binary32)
MantBits == 7
\* the grids of SpecMesh hold 1 .. MaxGridCells cells
MaxGridCells == 6
\* the grids of SpecExag hold elevations up to MaxElev metres
MaxElev == 600
\* SpecColor colours the elevations from -2 up to MaxColorElev metres
MaxColorElev == 1600
\* SpecFetch calls fetch_srtm_tiles MaxCalls times on a box
MaxCalls == 2

Abs(x) == IF x < 0 THEN -x ELSE x
Max2(a, b) == IF a >= b THEN a ELSE b
Min2(a, b) == IF a <= b THEN a ELSE b

(***************************************************************************)
(* get_srtm_tile_names (lines 56-67)                                       *)
(***************************************************************************)
\* math.floor of a coordinate given in 1/DegScale degree (\div rounds down)
Floor(x) == x \div DegScale

\* the tuple (tile, lat, lon) appended at line 66; the formatted name is the
\* tuple (lat_prefix, abs(lat), lon_prefix, abs(lon)) of lines 63-65
TileEntry(lat, lon) ==
    << << IF lat >= 0 THEN "N" ELSE "S", Abs(lat),
          IF lon >= 0 THEN "E" ELSE "W", Abs(lon) >>, lat, lon >>

\* inner loop, line 62: for lon in range(lon, lonEnd)
RECURSIVE TileRow(_, _, _)
TileRow(lat, lon, lonEnd) ==
    IF lon >= lonEnd THEN << >>
    ELSE << TileEntry(lat, lon) >> \o TileRow(lat, lon + 1, lonEnd)

\* outer loop, line 61: for lat in range(lat, latEnd)
RECURSIVE TileRows(_, _, _, _)
TileRows(lat, latEnd, lonStart, lonEnd) ==
    IF lat >= latEnd THEN << >>
    ELSE TileRow(lat, lonStart, lonEnd) \o TileRows(lat + 1, latEnd, lonStart, lonEnd)

\* mutant: the north/east end of the ranges is exclusive
get_srtm_tile_names_excl(b) ==
    TileRows(Floor(b[1]), Floor(b[3]), Floor(b[2]), Floor(b[4]))

get_srtm_tile_names(b) ==
    TileRows(Floor(b[1]), Floor(b[3]) + 1, Floor(b[2]), Floor(b[4]) + 1)

(***************************************************************************)
(* Nodata repair of load_and_resample (lines 185-203) and of               *)
(* load_srtm_tiles (lines 157-161).  The masks and the assignment through  *)
(* a mask are elementwise, so an array is its row-major sequence of cells. *)
(***************************************************************************)
\* the hard-coded sentinel threshold of lines 158 and 197
SENTINEL == -1000
\* the void value of SRTM rasters named at line 196
SRTM_VOID == -32768

SetMin(S) == CHOOSE m \in S : \A x \in S : m <= x
SetMax(S) == CHOOSE m \in S : \A x \in S : m >= x

\* data[mask] = valid.min() if len(valid) > 0 else 0, when mask.any()
\* (lines 189-194, 198-203 and 159-161); mask is the boolean array
FillMasked(d, mask) ==
    LET valid == { d[i] : i \in { j \in DOMAIN d : ~mask[j] } }
        fill == IF valid # {} THEN SetMin(valid) ELSE 0
    IN  IF \E i \in DOMAIN d : mask[i]
        THEN [i \in DOMAIN d |-> IF mask[i] THEN fill ELSE d[i]]
        ELSE d

\* lines 186-194: the declared nodata value, when there is one
RepairDeclared(d, nd) ==
    IF nd # None THEN FillMasked(d, [i \in DOMAIN d |-> d[i] = nd[1]]) ELSE d

\* lines 197-203 and 158-161: every value <= -1000
RepairSentinel(d) ==
    FillMasked(d, [i \in DOMAIN d |-> d[i] <= SENTINEL])

(***************************************************************************)
(* float32 arithmetic.  A float32 is a fixed-point number of 1/Unit metre  *)
(* with a MantBits-bit significand; results round to the nearest such      *)
(* number, ties to even.  Scalar and array operations on a float32 operand *)
(* and a Python float stay in float32 (NumPy's promotion rule since 2.0),  *)
(* so lines 398 and 434 round alike.                                       *)
(***************************************************************************)
RECURSIVE Pow2(_)
Pow2(k) == IF k <= 0 THEN 1 ELSE 2 * Pow2(k - 1)

\* the spacing of the float32 numbers around magnitude m
RECURSIVE UlpFrom(_, _)
UlpFrom(m, q) == IF m < Pow2(MantBits) * q THEN q ELSE UlpFrom(m, 2 * q)

\* num/den (den > 0) rounded to the nearest float32, ties to even
RoundRat(num, den) ==
    LET a == Abs(num)
        q == UlpFrom(a \div den, 1)
        k == a \div (den * q)
        r == a % (den * q)
        up == 2 * r > den * q \/ (2 * r = den * q /\ k % 2 = 1)
        m == (IF up THEN k + 1 ELSE k) * q
    IN  IF num < 0 THEN -m ELSE m

\* astype(np.float32) (lines 169, 218, 434)
Round32(x) == RoundRat(x, 1)

\* float32 - float32 (lines 223, 398, 434)
Sub32(a, b) == Round32(a - b)

\* float32 * vert_exag, the factor being the fraction v[1]/v[2] (lines 398, 434)
Mul32(a, v) == RoundRat(a * v[1], v[2])

\* np.array(..., dtype=np.float64) of a float32 value (line 405): exact
Float64(x) == x

(***************************************************************************)
(* The elevation grid: elev_data[r, c] of a row-major (C order) array.     *)
(***************************************************************************)
Elem(g, r, c) == g.cells[r * g.cols + c + 1]

GridMin(g) == SetMin({ g.cells[i] : i \in DOMAIN g.cells })
GridMax(g) == SetMax({ g.cells[i] : i \in DOMAIN g.cells })

(***************************************************************************)
(* compute_vertical_exaggeration (lines 221-233); a factor is <<num, den>> *)
(***************************************************************************)
\* line 223: float(elev_data.max() - elev_data.min())
ElevRange(g) == Sub32(GridMax(g), GridMin(g))

\* mutant: the band edges belong to the band below (<=)
compute_vertical_exaggeration_le(g) ==
    LET elev_range == ElevRange(g)
    IN  IF elev_range <= 10 * Unit THEN <<5, 1>>
        ELSE IF elev_range <= 50 * Unit THEN <<3, 1>>
        ELSE IF elev_range <= 200 * Unit THEN <<2, 1>>
        ELSE IF elev_range <= 500 * Unit THEN <<3, 2>>
        ELSE <<1, 1>>

compute_vertical_exaggeration(g) ==
    LET elev_range == ElevRange(g)
    IN  IF elev_range < 10 * Unit THEN <<5, 1>>
        ELSE IF elev_range < 50 * Unit THEN <<3, 1>>
        ELSE IF elev_range < 200 * Unit THEN <<2, 1>>
        ELSE IF elev_range < 500 * Unit THEN <<3, 2>>
        ELSE <<1, 1>>

(***************************************************************************)
(* elevation_to_color (lines 326-378).  A channel value c in [0, 1] is the *)
(* integer c * CScale; 3000 is the least common multiple of the band       *)
(* widths 5, 25, 50, 120, 300 and 1000, so every ramp is exact.            *)
(***************************************************************************)
CScale == 100 * 3000 * Unit

\* mutant: t = elev / w, the band's lower edge is not subtracted
RampFromZero(c0, dc, elev, lo, w) == c0 * 3000 * Unit + elev * dc * (3000 \div w)

\* c0 + t * dc with t = (elev - lo) / w, c0 and dc in hundredths
Ramp(c0, dc, elev, lo, w) == c0 * 3000 * Unit + (elev - lo * Unit) * dc * (3000 \div w)

\* the same with t already clamped to 1 (line 373)
RampEnd(c0, dc) == (c0 + dc) * 3000 * Unit

elevation_to_color(elev) ==
    IF elev < 0 THEN
        << 18 * 3000 * Unit, 25 * 3000 * Unit, 38 * 3000 * Unit >>
    ELSE IF elev < 5 * Unit THEN
        \* t = max(0, elev / 5.0)
        LET e == Max2(0, elev)
        IN  << Ramp(55, 5, e, 0, 5), Ramp(52, 3, e, 0, 5), Ramp(35, 2, e, 0, 5) >>
    ELSE IF elev < 30 * Unit THEN
        << Ramp(15, 5, elev, 5, 25), Ramp(45, 15, elev, 5, 25), Ramp(10, 5, elev, 5, 25) >>
    ELSE IF elev < 80 * Unit THEN
        << Ramp(20, 30, elev, 30, 50), Ramp(60, -5, elev, 30, 50), Ramp(15, 5, elev, 30, 50) >>
    ELSE IF elev < 200 * Unit THEN
        << Ramp(50, 25, elev, 80, 120), Ramp(55, -15, elev, 80, 120), Ramp(20, 12, elev, 80, 120) >>
    ELSE IF elev < 500 * Unit THEN
        << Ramp(75, -20, elev, 200, 300), Ramp(40, -10, elev, 200, 300), Ramp(32, -2, elev, 200, 300) >>
    ELSE
        \* t = min((elev - 500) / 1000.0, 1.0)
        IF elev - 500 * Unit >= 1000 * Unit
        THEN << RampEnd(55, 40), RampEnd(52, 43), RampEnd(50, 45) >>
        ELSE << Ramp(55, 40, elev, 500, 1000), Ramp(52, 43, elev, 500, 1000),
                Ramp(50, 45, elev, 500, 1000) >>

(***************************************************************************)
(* export_heightmap (lines 431-437)                                        *)
(***************************************************************************)
\* mutant: the grid minimum is not subtracted
export_heightmap_raw(g, v, elev_min) ==
    [i \in DOMAIN g.cells |-> Round32(Mul32(g.cells[i], v))]

\* ((elev_data - elev_min) * vert_exag).astype(np.float32), written by
\* tofile in row-major order
export_heightmap(g, v, elev_min) ==
    [i \in DOMAIN g.cells |-> Round32(Mul32(Sub32(g.cells[i], elev_min), v))]

(***************************************************************************)
(* build_mesh (lines 381-428).  x and z are kept doubled (2x, 2z), so that  *)
(* half_x = (cols - 1) * cell_size_m / 2.0 needs no fraction.              *)
(***************************************************************************)
\* lines 397-403: the vertex and the colour appended for cell (r, c)
MeshVertex(g, cs, v, elev_min, r, c) ==
    LET rgb == elevation_to_color(Elem(g, r, c))
    IN  [ pos |-> << 2 * c * cs - (g.cols - 1) * cs,
                     Float64(Mul32(Sub32(Elem(g, r, c), elev_min), v)),
                     2 * r * cs - (g.rows - 1) * cs >>,
          color |-> << (rgb[1] * 255) \div CScale, (rgb[2] * 255) \div CScale,
                       (rgb[3] * 255) \div CScale, 255 >> ]

\* line 396: for c in range(cols)
RECURSIVE VertexRow(_, _, _, _, _, _)
VertexRow(g, cs, v, elev_min, r, c) ==
    IF c >= g.cols THEN << >>
    ELSE << MeshVertex(g, cs, v, elev_min, r, c) >> \o VertexRow(g, cs, v, elev_min, r, c + 1)

\* line 395: for r in range(rows)
RECURSIVE VertexRows(_, _, _, _, _)
VertexRows(g, cs, v, elev_min, r) ==
    IF r >= g.rows THEN << >>
    ELSE VertexRow(g, cs, v, elev_min, r, 0) \o VertexRows(g, cs, v, elev_min, r + 1)

\* lines 412-417: the two triangles of the quad at (r, c)
QuadFaces(cols, r, c) ==
    LET i00 == r * cols + c
        i10 == (r + 1) * cols + c
        i01 == r * cols + (c + 1)
        i11 == (r + 1) * cols + (c + 1)
    IN  << <<i00, i10, i01>>, <<i01, i10, i11>> >>

\* line 411: for c in range(cols - 1)
RECURSIVE FaceRow(_, _, _)
FaceRow(cols, r, c) ==
    IF c >= cols - 1 THEN << >>
    ELSE QuadFaces(cols, r, c) \o FaceRow(cols, r, c + 1)

\* line 410: for r in range(rows - 1)
RECURSIVE FaceRows(_, _, _)
FaceRows(rows, cols, r) ==
    IF r >= rows - 1 THEN << >>
    ELSE FaceRow(cols, r, 0) \o FaceRows(rows, cols, r + 1)

\* mutant: the face loop runs over range(rows), one row of quads too many
build_mesh_overrun(g, cs, v) ==
    LET vc == VertexRows(g, cs, v, GridMin(g), 0)
    IN  [ vertices |-> [i \in DOMAIN vc |-> vc[i].pos],
          colors |-> [i \in DOMAIN vc |-> vc[i].color],
          faces |-> FaceRows(g.rows + 1, g.cols, 0) ]

build_mesh(g, cs, v) ==
    LET vc == VertexRows(g, cs, v, GridMin(g), 0)
    IN  [ vertices |-> [i \in DOMAIN vc |-> vc[i].pos],
          colors |-> [i \in DOMAIN vc |-> vc[i].color],
          faces |-> FaceRows(g.rows, g.cols, 0) ]

(***************************************************************************)
(* The synthesis steps of main (lines 533-571) on a finished grid.         *)
(***************************************************************************)
\* line 534: args.vert_exag or compute_vertical_exaggeration(elev_data);
\* None and 0.0 are falsy
ChooseExag ==
    /\ pc = "grid"
    /\ vert_exag' = IF args_vert_exag # None /\ args_vert_exag[1] # 0
                    THEN args_vert_exag
                    ELSE compute_vertical_exaggeration(elev_data)
    /\ pc' = "exag"
    /\ UNCHANGED <<elev_data, cell_size_m, args_vert_exag, heightmap, mesh,
                   tileVars, repairVars, colorVars, overlayVars, runVars>>

\* lines 538-541: elev_min = float(elev_data.min()); export_heightmap(...)
ExportHeightmap ==
    /\ pc = "exag"
    /\ heightmap' = export_heightmap(elev_data, vert_exag, GridMin(elev_data))
    /\ pc' = "heightmap"
    /\ UNCHANGED <<elev_data, cell_size_m, args_vert_exag, vert_exag, mesh,
                   tileVars, repairVars, colorVars, overlayVars, runVars>>

\* line 568: mesh = build_mesh(elev_data, grid_size, cell_size_m, vert_exag)
BuildMesh ==
    /\ pc = "heightmap"
    /\ mesh' = build_mesh(elev_data, cell_size_m, vert_exag)
    /\ pc' = "mesh"
    /\ UNCHANGED <<elev_data, cell_size_m, args_vert_exag, vert_exag, heightmap,
                   tileVars, repairVars, colorVars, overlayVars, runVars>>

NextMesh == ChooseExag \/ ExportHeightmap \/ BuildMesh

NextExag == ChooseExag

\* the float32 numbers among the fixed-point numbers of S
F32In(S) == { x \in S : Round32(x) = x }

\* the --vert-exag values of the model: absent, 0, 1.25, -1
ExagArgs == { None, <<0, 1>>, <<5, 4>>, <<-1, 1>> }

\* elevations of SpecMesh: below the datum, fractional, and large enough
\* for differences and products to round
MeshElevs == { Round32(x) : x \in { -2 * Unit - 1, 3, 257 * Unit + 6 } }

GridShapes == { s \in (1 .. MaxGridCells) \X (1 .. MaxGridCells) : s[1] * s[2] <= MaxGridCells }

Grids(elevs) ==
    UNION { { [rows |-> s[1], cols |-> s[2], cells |-> cs] :
                cs \in [1 .. s[1] * s[2] -> elevs] } : s \in GridShapes }

InitMesh ==
    /\ pc = "grid"
    /\ elev_data \in Grids(MeshElevs)
    /\ cell_size_m \in {1, 3}
    /\ args_vert_exag \in ExagArgs
    /\ vert_exag = None /\ heightmap = << >> /\ mesh = None
    /\ IdleTiles /\ IdleRepair /\ IdleColor /\ IdleOverlay /\ IdleRun

\* grids of two cells: a low cell and any float32 elevation up to MaxElev
InitExag ==
    /\ pc = "grid"
    /\ \E lo \in F32In({-Unit - 1, 0, 3}), hi \in F32In(0 .. MaxElev * Unit), s \in {<<1, 2>>, <<2, 1>>} :
          elev_data = [rows |-> s[1], cols |-> s[2], cells |-> <<hi, lo>>]
    /\ cell_size_m = 1
    /\ args_vert_exag \in {None, <<0, 1>>, <<5, 4>>}
    /\ vert_exag = None /\ heightmap = << >> /\ mesh = None
    /\ IdleTiles /\ IdleRepair /\ IdleColor /\ IdleOverlay /\ IdleRun

(***************************************************************************)
(* SpecColor: elevation_to_color applied to every elevation of a bounded   *)
(* range and to its lower neighbour.                                       *)
(***************************************************************************)
ColorElevs == -2 * Unit .. MaxColorElev * Unit

InitColor ==
    /\ pc = "elev"
    /\ col_elev \in ColorElevs
    /\ col_rgb = None /\ col_below = None
    /\ IdleTiles /\ IdleRepair /\ IdleMesh /\ IdleOverlay /\ IdleRun

Classify ==
    /\ pc = "elev"
    /\ col_rgb' = elevation_to_color(col_elev)
    /\ col_below' = elevation_to_color(col_elev - 1)
    /\ pc' = "colored"
    /\ UNCHANGED <<col_elev, tileVars, repairVars, meshVars, overlayVars, runVars>>

NextColor == Classify

(***************************************************************************)
(* fetch_osm_overlay (lines 236-323).  Longitudes and latitudes are in     *)
(* 1/1000 degree.  A latitude of the model is given by its Web-Mercator    *)
(* position q: the latitude whose y-fraction (line 258, before * n) is     *)
(* q/64, so that the forward formula is exact; MercatorLat tabulates the   *)
(* inverse formula of line 264 at these positions.                         *)
(***************************************************************************)
\* degrees(atan(sinh(pi * (1 - 2 * q / 64)))) in 1/1000 degree, q = -16 .. 96
MercatorLatTable ==
    << 88971, 88864, 88747, 88618, 88476, 88318, 88145, 87954,
       87743, 87510, 87253, 86970, 86657, 86313, 85933, 85513,
       85051, 84541, 83979, 83360, 82676, 81923, 81093, 80179,
       79171, 78062, 76841, 75497, 74020, 72396, 70613, 68657,
       66513, 64168, 61606, 58814, 55777, 52483, 48922, 45089,
       40980, 36598, 31952, 27059, 21943, 16636, 11178, 5616,
       0, -5616, -11178, -16636, -21943, -27059, -31952, -36598,
       -40980, -45089, -48922, -52483, -55777, -58814, -61606, -64168,
       -66513, -68657, -70613, -72396, -74020, -75497, -76841, -78062,
       -79171, -80179, -81093, -81923, -82676, -83360, -83979, -84541,
       -85051, -85513, -85933, -86313, -86657, -86970, -87253, -87510,
       -87743, -87954, -88145, -88318, -88476, -88618, -88747, -88864,
       -88971, -89067, -89154, -89233, -89305, -89370, -89429, -89482,
       -89531, -89575, -89614, -89650, -89683, -89713, -89740, -89764,
       -89786 >>

MercatorLat(q) == MercatorLatTable[q + 17]

\* Python's int() of the quotient a / b (b > 0): truncation toward zero
TruncDiv(a, b) == IF a >= 0 THEN a \div b ELSE -((-a) \div b)

\* round(log2(1440000 / span)) for 0 < span: the largest k with
\* span * 2^k <= 1440000 * sqrt(2) = 2036467.5... (never below 0 for the
\* spans of the model, which are under 1440 degrees)
RECURSIVE RoundLog2From(_, _)
RoundLog2From(span, k) ==
    IF span * Pow2(k + 1) <= 2036467 THEN RoundLog2From(span, k + 1) ELSE k

\* lines 245-252; box = [south, west, north, east], south and north as
\* Mercator positions
OverlayZoom(box) ==
    LET lat_span == MercatorLat(box.north) - MercatorLat(box.south)
        lon_span == box.east - box.west
        span == Max2(lat_span, lon_span)
        z == RoundLog2From(span, 0)
    IN  Max2(1, Min2(z, 18))

\* lines 254-259: lat_lon_to_tile, (x, y)
lat_lon_to_tile(q, lon, zoom) ==
    LET n == Pow2(zoom)
    IN  << TruncDiv((lon + 180000) * n, 360000), TruncDiv(q * n, 64) >>

\* lines 261-266: tile_to_lat_lon, (lat, lon)
tile_to_lat_lon(x, y, zoom) ==
    LET n == Pow2(zoom)
    IN  << MercatorLat((y * 64) \div n), (x * 360000) \div n - 180000 >>

\* lines 269-277 and 299-300: the tile range and the size of the composite
OverlayTileRange(box, z, tile_size) ==
    LET nw == lat_lon_to_tile(box.north, box.west, z)
        se == lat_lon_to_tile(box.south, box.east, z)
        cols == se[1] - nw[1] + 1
        rows == se[2] - nw[2] + 1
    IN  [ x_min |-> nw[1], y_min |-> nw[2], x_max |-> se[1], y_max |-> se[2],
          total_w |-> cols * tile_size, total_h |-> rows * tile_size ]

\* lines 296-311: the crop box (left, top, right, bottom)
OverlayCropBox(box, z, t) ==
    LET nw == tile_to_lat_lon(t.x_min, t.y_min, z)
        se == tile_to_lat_lon(t.x_max + 1, t.y_max + 1, z)
        nw_lat == nw[1]
        nw_lon == nw[2]
        se_lat == se[1]
        se_lon == se[2]
        px_left == TruncDiv((box.west - nw_lon) * t.total_w, se_lon - nw_lon)
        px_right == TruncDiv((box.east - nw_lon) * t.total_w, se_lon - nw_lon)
        px_top == TruncDiv((nw_lat - MercatorLat(box.north)) * t.total_h, nw_lat - se_lat)
        px_bottom == TruncDiv((nw_lat - MercatorLat(box.south)) * t.total_h, nw_lat - se_lat)
    IN  [ left |-> Max2(0, px_left), top |-> Max2(0, px_top),
          right |-> Min2(t.total_w, px_right), bottom |-> Min2(t.total_h, px_bottom) ]

(***************************************************************************)
(* SpecOverlay: fetch_osm_overlay on every box of a bounded set of valid   *)
(* boxes (south < north, west < east, longitudes in -180 .. 180).          *)
(***************************************************************************)
\* Mercator positions of the corner latitudes: 88.3, 87.95, 86.7, 85.05,
\* 71.2, 0, -16.9, -85.05 and -87.25 degrees
OvLats == { -11, -9, -4, 0, 13, 32, 37, 64, 70 }

\* corner longitudes, multiples of 5.625 degrees
OvLons == { l * 5625 : l \in { -32, -20, -16, -5, 0, 3, 12, 16, 28, 32 } }

\* the tile corners of zoom levels up to 6 are positions of MercatorLatTable
OvBoxes ==
    { b \in [south : OvLats, west : OvLons, north : OvLats, east : OvLons] :
        /\ MercatorLat(b.south) < MercatorLat(b.north)
        /\ b.west < b.east
        /\ OverlayZoom(b) <= 6 }

InitOverlay ==
    /\ pc = "overlay"
    /\ ov_box \in OvBoxes
    /\ ov_zoom = 0 /\ ov_tiles = None /\ ov_crop = None
    /\ IdleTiles /\ IdleRepair /\ IdleMesh /\ IdleColor /\ IdleRun

\* lines 242-252
PickZoom ==
    /\ pc = "overlay"
    /\ ov_zoom' = OverlayZoom(ov_box)
    /\ pc' = "zoom"
    /\ UNCHANGED <<ov_box, ov_tiles, ov_crop, tileVars, repairVars, meshVars, colorVars, runVars>>

\* lines 268-293: the tile range, the composite image and the tiles pasted
\* into it (a failed tile leaves its place blank and the size as it is)
Composite ==
    /\ pc = "zoom"
    /\ ov_tiles' = OverlayTileRange(ov_box, ov_zoom, 256)
    /\ pc' = "composite"
    /\ UNCHANGED <<ov_box, ov_zoom, ov_crop, tileVars, repairVars, meshVars, colorVars, runVars>>

\* lines 295-313
Crop ==
    /\ pc = "composite"
    /\ ov_crop' = OverlayCropBox(ov_box, ov_zoom, ov_tiles)
    /\ pc' = "cropped"
    /\ UNCHANGED <<ov_box, ov_zoom, ov_tiles, tileVars, repairVars, meshVars, colorVars, runVars>>

NextOverlay == PickZoom \/ Composite \/ Crop

(***************************************************************************)
(* compute_bounds (lines 44-53) and the scale presets (lines 24-30).       *)
(***************************************************************************)
\* a coordinate of whole degrees and hundredths, in 1/DegScale degree
Deg(whole, hundredths) == whole * DegScale + (hundredths * DegScale) \div 100

\* SCALE_PRESETS: name -> radius in metres (radius_km * 1000) and grid size
SCALE_PRESETS ==
    [ human         |-> [radius_m |-> 250,   grid |-> 256],
      neighbourhood |-> [radius_m |-> 1000,  grid |-> 256],
      township      |-> [radius_m |-> 3000,  grid |-> 256],
      catchment     |-> [radius_m |-> 25000, grid |-> 256],
      regional      |-> [radius_m |-> 75000, grid |-> 128] ]

\* the centres of the model: (-39.20, 178.00) and (0.00, -0.30)
RunCentres == { << -Deg(39, 20), Deg(178, 0) >>, << 0, -Deg(0, 30) >> }

\* lines 33-41: what geocode_place returns for the place name of the model
GeocodeCentre == << -Deg(39, 20), Deg(178, 0) >>

\* 1000 * np.cos(np.radians(lat)) at the latitudes of RunCentres
CosMilli(lat) == IF lat = 0 THEN 1000 ELSE 775

\* lines 47-53; radius_km / 111 and radius_km / (111 * cos(lat)) degrees
compute_bounds(lat, lon, radius_m) ==
    LET dlat == (radius_m * DegScale) \div 111000
        dlon == (radius_m * DegScale) \div (111 * CosMilli(lat))
    IN  << lat - dlat, lon - dlon, lat + dlat, lon + dlon >>

(***************************************************************************)
(* main (lines 440-603) and fetch_srtm_tiles (lines 70-126).               *)
(* The output files are [written, writes]; the metadata file also holds    *)
(* has_overlay.  elev_cache and own_cache are the tile names whose file    *)
(* exists and is not empty in the elevation-package cache and in cache_dir.*)
(***************************************************************************)
\* the name formatted at line 65
TileName(t) == t[1]

\* mutant: the download is unpacked to a place the next lookup does not read
CacheAfterDownloadElsewhere(cache, name) == cache

\* lines 116-119: the tile unpacked to cache_dir/<name>.hgt
CacheAfterDownload(cache, name) == cache \cup {name}

\* mutant: the exception of a download leaves the loop
AbortAfterFailure(i, n) == n + 1

\* lines 123-124: the exception of a download is caught inside the loop,
\* which goes on with the next tile
AfterDownloadFailure(i, n) == i + 1

NoFile == [written |-> FALSE, writes |-> 0]
Written(f) == [written |-> TRUE, writes |-> f.writes + 1]

\* lines 544-563: the metadata as first written, without the overlay flag
FirstMeta == [written |-> TRUE, writes |-> 1, has_overlay |-> FALSE]

\* lines 579-582: meta['has_overlay'] = True and the file written again
RewriteMeta(m) == [m EXCEPT !.has_overlay = TRUE, !.writes = @ + 1]

\* mutant: the flag is set and the file rewritten before the overlay is fetched
OverlayMetaFlagFirst(m, ok) == RewriteMeta(m)

\* lines 577-585: the metadata after the try block; ok is whether
\* fetch_osm_overlay returned
OverlayMeta(m, ok) == IF ok THEN RewriteMeta(m) ELSE m

BoxValid(b) == b[1] < b[3] /\ b[2] < b[4]

\* lines 465-480: the location; "none" is parser.error, "crash" a place
\* that does not geocode
ResolveLocation ==
    /\ pc = "start"
    /\ IF args.place THEN
           \/ centre' = GeocodeCentre /\ pc' = "bounds" /\ exit_code' = exit_code
           \/ centre' = centre /\ pc' = "crashed" /\ exit_code' = 1
       ELSE IF args.latlon # None THEN
           centre' = args.latlon /\ pc' = "bounds" /\ exit_code' = exit_code
       ELSE IF args.bounds # None THEN
           /\ centre' = << (args.bounds[1] + args.bounds[3]) \div 2,
                           (args.bounds[2] + args.bounds[4]) \div 2 >>
           /\ pc' = "bounds" /\ exit_code' = exit_code
       ELSE IF args.input_tif THEN
           centre' = <<0, 0>> /\ pc' = "bounds" /\ exit_code' = exit_code
       ELSE
           centre' = centre /\ pc' = "exited" /\ exit_code' = 2
    /\ UNCHANGED <<args, bounds, tiles, idx, paths, outcomes, fused, elev_cache, own_cache,
                   files, overlay_result, repairVars, meshVars, colorVars, overlayVars, earlier>>

\* lines 492-499
ComputeBounds ==
    /\ pc = "bounds"
    /\ bounds' = IF args.bounds # None THEN args.bounds
                 ELSE IF args.input_tif THEN None
                 ELSE compute_bounds(centre[1], centre[2], SCALE_PRESETS[args.scale].radius_m)
    /\ pc' = "elev"
    /\ UNCHANGED <<args, centre, tiles, idx, paths, outcomes, fused, elev_cache, own_cache,
                   files, exit_code, overlay_result, repairVars, meshVars, colorVars, overlayVars, earlier>>

\* lines 505-507: load_and_resample of the local raster, outside any try; it
\* raises on an empty window
LoadRaster ==
    /\ pc = "elev"
    /\ args.input_tif
    /\ \/ (IF bounds = None THEN TRUE ELSE BoxValid(bounds))
          /\ pc' = "loaded" /\ exit_code' = exit_code
       \/ pc' = "crashed" /\ exit_code' = 1
    /\ UNCHANGED <<args, centre, bounds, tiles, idx, paths, outcomes, fused, elev_cache,
                   own_cache, files, overlay_result, repairVars, meshVars, colorVars, overlayVars, earlier>>

\* lines 512 and 81-89: fetch_srtm_tiles begins
FetchBegin ==
    /\ pc = "elev"
    /\ ~args.input_tif
    /\ tiles' = get_srtm_tile_names(bounds)
    /\ paths' = << >>
    /\ outcomes' = << >>
    /\ idx' = 1
    /\ pc' = "fetch"
    /\ UNCHANGED <<args, centre, bounds, fused, elev_cache, own_cache, files, exit_code,
                   overlay_result, repairVars, meshVars, colorVars, overlayVars, earlier>>

\* lines 95-99: the tile is in the elevation package's cache
TileFromElevationCache ==
    /\ pc = "fetch" /\ idx <= Len(tiles)
    /\ TileName(tiles[idx]) \in elev_cache
    /\ paths' = Append(paths, <<"elevation", TileName(tiles[idx])>>)
    /\ outcomes' = Append(outcomes, "elevation_cache")
    /\ idx' = idx + 1
    /\ UNCHANGED <<pc, args, centre, bounds, tiles, fused, elev_cache, own_cache, files,
                   exit_code, overlay_result, repairVars, meshVars, colorVars, overlayVars, earlier>>

\* lines 102-106: the tile is in cache_dir
TileFromOwnCache ==
    /\ pc = "fetch" /\ idx <= Len(tiles)
    /\ TileName(tiles[idx]) \notin elev_cache
    /\ TileName(tiles[idx]) \in own_cache
    /\ paths' = Append(paths, <<"own", TileName(tiles[idx])>>)
    /\ outcomes' = Append(outcomes, "own_cache")
    /\ idx' = idx + 1
    /\ UNCHANGED <<pc, args, centre, bounds, tiles, fused, elev_cache, own_cache, files,
                   exit_code, overlay_result, repairVars, meshVars, colorVars, overlayVars, earlier>>

\* lines 109-122: the tile is downloaded and unpacked into cache_dir
TileDownloaded ==
    /\ pc = "fetch" /\ idx <= Len(tiles)
    /\ TileName(tiles[idx]) \notin elev_cache
    /\ TileName(tiles[idx]) \notin own_cache
    /\ own_cache' = CacheAfterDownload(own_cache, TileName(tiles[idx]))
    /\ paths' = Append(paths, <<"own", TileName(tiles[idx])>>)
    /\ outcomes' = Append(outcomes, "downloaded")
    /\ idx' = idx + 1
    /\ UNCHANGED <<pc, args, centre, bounds, tiles, fused, elev_cache, files,
                   exit_code, overlay_result, repairVars, meshVars, colorVars, overlayVars, earlier>>

\* lines 114-124: the download or the unpacking raises; no path is appended.
\* What raised decides what stays in cache_dir: nothing or an empty .hgt
\* (urlretrieve, gzip), or a non-empty .hgt (the write, os.remove)
TileDownloadFailed ==
    /\ pc = "fetch" /\ idx <= Len(tiles)
    /\ TileName(tiles[idx]) \notin elev_cache
    /\ TileName(tiles[idx]) \notin own_cache
    /\ outcomes' = Append(outcomes, "failed")
    /\ idx' = AfterDownloadFailure(idx, Len(tiles))
    /\ \E left \in BOOLEAN :
          own_cache' = IF left THEN own_cache \cup {TileName(tiles[idx])} ELSE own_cache
    /\ UNCHANGED <<pc, args, centre, bounds, tiles, paths, fused, elev_cache, files,
                   exit_code, overlay_result, repairVars, meshVars, colorVars, overlayVars, earlier>>

\* lines 126 and 513-519: fetch_srtm_tiles returns; without a path main
\* raises, reports and exits with status 1
FetchReturn ==
    /\ pc = "fetch" /\ idx > Len(tiles)
    /\ IF paths = << >>
       THEN pc' = "exited" /\ exit_code' = 1
       ELSE pc' = "fusion" /\ exit_code' = exit_code
    /\ UNCHANGED <<args, centre, bounds, tiles, idx, paths, outcomes, fused, elev_cache,
                   own_cache, files, overlay_result, repairVars, meshVars, colorVars, overlayVars, earlier>>

\* lines 515-519: load_srtm_tiles; what it raises (an unreadable tile, an
\* empty window) ends the run with status 1
LoadTiles ==
    /\ pc = "fusion"
    /\ fused' = TRUE
    /\ \/ BoxValid(bounds) /\ pc' = "loaded" /\ exit_code' = exit_code
       \/ pc' = "exited" /\ exit_code' = 1
    /\ UNCHANGED <<args, centre, bounds, tiles, idx, paths, outcomes, elev_cache, own_cache,
                   files, overlay_result, repairVars, meshVars, colorVars, overlayVars, earlier>>

\* lines 537-541: heightmap.bin
WriteHeightmap ==
    /\ pc = "loaded"
    /\ files' = [files EXCEPT !.heightmap = Written(@)]
    /\ pc' = "heightmap"
    /\ UNCHANGED <<args, centre, bounds, tiles, idx, paths, outcomes, fused, elev_cache,
                   own_cache, exit_code, overlay_result, repairVars, meshVars, colorVars,
                   overlayVars, earlier>>

\* lines 543-564: heightmap_meta.json
WriteMeta ==
    /\ pc = "heightmap"
    /\ files' = [files EXCEPT !.meta = FirstMeta]
    /\ pc' = "meta"
    /\ UNCHANGED <<args, centre, bounds, tiles, idx, paths, outcomes, fused, elev_cache,
                   own_cache, exit_code, overlay_result, repairVars, meshVars, colorVars,
                   overlayVars, earlier>>

\* lines 566-571: terrain.glb
WriteMesh ==
    /\ pc = "meta"
    /\ files' = [files EXCEPT !.mesh = Written(@)]
    /\ pc' = "mesh"
    /\ UNCHANGED <<args, centre, bounds, tiles, idx, paths, outcomes, fused, elev_cache,
                   own_cache, exit_code, overlay_result, repairVars, meshVars, colorVars,
                   overlayVars, earlier>>

\* lines 574-585 with --overlay: fetch_osm_overlay returns (overlay.png
\* saved) or raises; it raises at line 242 when bounds is None, and an
\* exception may leave overlay.png unwritten or written
Overlay ==
    /\ pc = "mesh"
    /\ args.overlay
    /\ \E ok \in BOOLEAN :
          /\ ok => bounds # None
          /\ overlay_result' = IF ok THEN "ok" ELSE "failed"
          /\ \E saved \in BOOLEAN :
                /\ ok => saved
                /\ bounds = None => ~saved
                /\ files' = [files EXCEPT !.meta = OverlayMeta(@, ok),
                                          !.overlay = IF saved THEN Written(@) ELSE @]
    /\ pc' = "done"
    /\ exit_code' = 0
    /\ UNCHANGED <<args, centre, bounds, tiles, idx, paths, outcomes, fused, elev_cache,
                   own_cache, repairVars, meshVars, colorVars, overlayVars, earlier>>

\* line 574 without --overlay, and lines 602-603
Finish ==
    /\ pc = "mesh"
    /\ ~args.overlay
    /\ pc' = "done"
    /\ exit_code' = 0
    /\ UNCHANGED <<args, centre, bounds, tiles, idx, paths, outcomes, fused, elev_cache,
                   own_cache, files, overlay_result, repairVars, meshVars, colorVars,
                   overlayVars, earlier>>

NextRun ==
    \/ ResolveLocation \/ ComputeBounds \/ LoadRaster \/ FetchBegin
    \/ TileFromElevationCache \/ TileFromOwnCache \/ TileDownloaded \/ TileDownloadFailed
    \/ FetchReturn \/ LoadTiles
    \/ WriteHeightmap \/ WriteMeta \/ WriteMesh \/ Overlay \/ Finish

(***************************************************************************)
(* SpecRun: one run of main for every command line of a bounded set and    *)
(* every content of the two caches for the tiles of its box.               *)
(***************************************************************************)
\* --bounds: the box of the usage text, the same box with south and north
\* exchanged, and a box whose south is a whole cell above its north
RunBoxes ==
    { << -Deg(39, 7), Deg(177, 38), -Deg(39, 3), Deg(177, 44) >>,
      << -Deg(39, 3), Deg(177, 38), -Deg(39, 7), Deg(177, 44) >>,
      << -Deg(38, 50), Deg(177, 38), -Deg(39, 50), Deg(177, 44) >> }

RunArgs ==
    [ place : BOOLEAN, latlon : {None} \cup RunCentres, bounds : {None} \cup RunBoxes,
      input_tif : BOOLEAN, overlay : BOOLEAN, scale : DOMAIN SCALE_PRESETS ]

\* the box these arguments lead main to, by lines 465-499, or None
RunBox(a) ==
    IF a.bounds # None THEN a.bounds
    ELSE IF a.input_tif THEN None
    ELSE IF a.place THEN
        compute_bounds(GeocodeCentre[1], GeocodeCentre[2], SCALE_PRESETS[a.scale].radius_m)
    ELSE IF a.latlon # None THEN
        compute_bounds(a.latlon[1], a.latlon[2], SCALE_PRESETS[a.scale].radius_m)
    ELSE None

\* the tile names a run with these arguments looks up in the caches
RunTileNames(a) ==
    IF a.input_tif \/ RunBox(a) = None THEN {}
    ELSE { TileName(get_srtm_tile_names(RunBox(a))[i]) :
             i \in 1 .. Len(get_srtm_tile_names(RunBox(a))) }

InitRun ==
    /\ pc = "start"
    /\ args \in RunArgs
    /\ centre = None
    /\ bounds = None /\ tiles = << >>
    /\ idx = 0 /\ paths = << >> /\ outcomes = << >> /\ fused = FALSE
    /\ elev_cache \in SUBSET RunTileNames(args)
    /\ own_cache \in SUBSET RunTileNames(args)
    /\ files = [heightmap |-> NoFile, meta |-> [written |-> FALSE, writes |-> 0, has_overlay |-> FALSE],
                mesh |-> NoFile, overlay |-> NoFile]
    /\ exit_code = None
    /\ overlay_result = "none"
    /\ earlier = << >>
    /\ IdleRepair /\ IdleMesh /\ IdleColor /\ IdleOverlay

(***************************************************************************)
(* SpecFetch: fetch_srtm_tiles (lines 70-126) called MaxCalls times on the *)
(* same box, as by successive runs of main; what is in the two caches      *)
(* stays on disk from one call to the next.                                *)
(***************************************************************************)
\* the boxes of SpecFetch: those of --bounds and those of compute_bounds
FetchBoxes ==
    RunBoxes \cup
    { compute_bounds(c[1], c[2], SCALE_PRESETS[s].radius_m) :
        c \in RunCentres, s \in DOMAIN SCALE_PRESETS }

BoxTileNames(b) ==
    { TileName(get_srtm_tile_names(b)[i]) : i \in 1 .. Len(get_srtm_tile_names(b)) }

\* lines 81-89 of the first call
InitFetch ==
    /\ pc = "fetch"
    /\ bounds \in FetchBoxes
    /\ tiles = get_srtm_tile_names(bounds)
    /\ idx = 1 /\ paths = << >> /\ outcomes = << >>
    /\ elev_cache \in SUBSET BoxTileNames(bounds)
    /\ own_cache \in SUBSET BoxTileNames(bounds)
    /\ earlier = << >>
    /\ args = None /\ centre = None /\ fused = FALSE /\ files = None
    /\ exit_code = None /\ overlay_result = "none"
    /\ IdleRepair /\ IdleMesh /\ IdleColor /\ IdleOverlay

\* line 126, and lines 81-89 of the next call on the same box
FetchAgain ==
    /\ pc = "fetch" /\ idx > Len(tiles)
    /\ Len(earlier) + 1 < MaxCalls
    /\ earlier' = Append(earlier, outcomes)
    /\ tiles' = get_srtm_tile_names(bounds)
    /\ paths' = << >>
    /\ outcomes' = << >>
    /\ idx' = 1
    /\ UNCHANGED <<pc, args, centre, bounds, fused, elev_cache, own_cache, files, exit_code,
                   overlay_result, repairVars, meshVars, colorVars, overlayVars>>

NextFetch ==
    \/ TileFromElevationCache \/ TileFromOwnCache \/ TileDownloaded \/ TileDownloadFailed
    \/ FetchAgain

(***************************************************************************)
(* SpecRepair: the repair step of either loader applied to every array of  *)
(* a bounded set, under every declared nodata value.                       *)
(***************************************************************************)
RawValues == {SRTM_VOID, SENTINEL, SENTINEL + 1} \cup (0 .. MaxRaw)

RawArrays == UNION { [1 .. n -> RawValues] : n \in 1 .. MaxCells }

InitRepair ==
    /\ pc = "read"
    /\ raw \in RawArrays
    /\ nodata \in {None} \cup { <<v>> : v \in RawValues }
    /\ data = raw
    /\ fusion = "none"
    /\ IdleTiles /\ IdleMesh /\ IdleColor /\ IdleOverlay /\ IdleRun

\* load_and_resample, lines 185-203 (a local raster, or a single tile path)
RepairSingle ==
    /\ pc = "read"
    /\ data' = RepairSentinel(RepairDeclared(data, nodata))
    /\ fusion' = "single"
    /\ pc' = "repaired"
    /\ UNCHANGED <<raw, nodata, tileVars, meshVars, colorVars, overlayVars, runVars>>

\* load_srtm_tiles, lines 157-161 (two or more tile paths, merged)
RepairMerge ==
    /\ pc = "read"
    /\ data' = RepairSentinel(data)
    /\ fusion' = "merge"
    /\ pc' = "repaired"
    /\ UNCHANGED <<raw, nodata, tileVars, meshVars, colorVars, overlayVars, runVars>>

NextRepair == RepairSingle \/ RepairMerge

(***************************************************************************)
(* SpecTiles: get_srtm_tile_names applied to every box of a bounded set.   *)
(***************************************************************************)
\* corner coordinates: whole degrees, and whole degrees plus a fraction
TileCoords ==
    { d * DegScale + f : d \in -MaxDeg .. MaxDeg, f \in {0, DegScale \div 2, DegScale - 1} }

TileBoxes ==
    { <<s, w, n, e>> : s \in TileCoords, w \in TileCoords, n \in TileCoords, e \in TileCoords }

InitTiles ==
    /\ pc = "box"
    /\ bounds \in { b \in TileBoxes : b[1] <= b[3] /\ b[2] <= b[4] }
    /\ tiles = << >>
    /\ IdleRepair /\ IdleMesh /\ IdleColor /\ IdleOverlay /\ IdleRun

IndexTiles ==
    /\ pc = "box"
    /\ tiles' = get_srtm_tile_names(bounds)
    /\ pc' = "indexed"
    /\ UNCHANGED <<bounds, repairVars, meshVars, colorVars, overlayVars, runVars>>

NextTiles == IndexTiles

vars == <<pc, tileVars, repairVars, meshVars, colorVars, overlayVars, runVars>>

SpecTiles == InitTiles /\ [][NextTiles]_vars
SpecRepair == InitRepair /\ [][NextRepair]_vars
SpecMesh == InitMesh /\ [][NextMesh]_vars
SpecExag == InitExag /\ [][NextExag]_vars
SpecColor == InitColor /\ [][NextColor]_vars
SpecOverlay == InitOverlay /\ [][NextOverlay]_vars
SpecRun == InitRun /\ [][NextRun]_vars
SpecFetch == InitFetch /\ [][NextFetch]_vars

\* the (lat, lon) cells of the returned entries
TileCells == { <<tiles[i][2], tiles[i][3]>> : i \in 1 .. Len(tiles) }

\* C1: for a box with south <= north and west <= east the returned list has
\* exactly one entry for each integer-degree cell (lat, lon) with
\* floor(south) <= lat <= floor(north) and floor(west) <= lon <= floor(east),
\* no entry for another cell, and no cell twice.
C1_TilesExactCover ==
    pc = "indexed" =>
        /\ TileCells = { <<lat, lon>> \in (-MaxDeg - 1 .. MaxDeg + 1) \X (-MaxDeg - 1 .. MaxDeg + 1) :
                            /\ lat * DegScale <= bounds[3] /\ (lat + 1) * DegScale > bounds[1]
                            /\ lon * DegScale <= bounds[4] /\ (lon + 1) * DegScale > bounds[2] }
        /\ \A i, j \in 1 .. Len(tiles) :
              (tiles[i][2] = tiles[j][2] /\ tiles[i][3] = tiles[j][3]) => i = j

\* a box spanning several cells in both directions, with negative and
\* fractional corners, has been indexed
C1_Witness ==
    /\ pc = "indexed"
    /\ bounds[1] < 0 /\ bounds[1] % DegScale # 0
    /\ Floor(bounds[3]) > Floor(bounds[1]) + 1
    /\ Floor(bounds[4]) > Floor(bounds[2])
    /\ Len(tiles) >= 6

\* a cell of the array read is a sentinel: <= -1000, or the declared nodata value
IsSentinelCell(v) == v <= SENTINEL \/ (nodata # None /\ v = nodata[1])

\* C2: after the nodata repair step of either loader no cell of the repaired
\* array is <= -1000, and when every input cell is a sentinel (<= -1000 or
\* equal to the declared nodata value) every repaired cell is 0.
C2_RepairExhaustive ==
    pc = "repaired" =>
        /\ \A i \in DOMAIN data : data[i] > SENTINEL
        /\ (\A i \in DOMAIN raw : IsSentinelCell(raw[i])) =>
               \A i \in DOMAIN data : data[i] = 0

MeshYs == { mesh.vertices[i][2] : i \in DOMAIN mesh.vertices }

\* C3: for a grid with rows, cols >= 1 build_mesh produces exactly rows*cols
\* vertices and 2*(rows-1)*(cols-1) faces, every index of every face is in
\* 0 .. rows*cols-1, and for a vertical exaggeration > 0 the minimum
\* y-coordinate over all vertices is exactly 0.
C3_MeshShape ==
    pc = "mesh" =>
        LET n == elev_data.rows * elev_data.cols
        IN  /\ Len(mesh.vertices) = n
            /\ Len(mesh.colors) = n
            /\ Len(mesh.faces) = 2 * (elev_data.rows - 1) * (elev_data.cols - 1)
            /\ \A f \in DOMAIN mesh.faces : \A k \in 1 .. 3 : mesh.faces[f][k] \in 0 .. n - 1
            /\ vert_exag[1] > 0 => SetMin(MeshYs) = 0

\* a mesh of several quads over a grid whose minimum is not 0 and whose
\* relief is not flat, with a positive exaggeration
C3_Witness ==
    /\ pc = "mesh"
    /\ elev_data.rows >= 2 /\ elev_data.cols >= 3
    /\ vert_exag[1] > 0
    /\ GridMin(elev_data) < 0
    /\ SetMax(MeshYs) > 0

\* C4: with elev_min the grid minimum, as main passes it, the value that
\* export_heightmap emits at row-major index r*cols+c equals the
\* y-coordinate of vertex r*cols+c of build_mesh, for every cell (r, c).
C4_HeightmapMatchesMesh ==
    pc = "mesh" =>
        /\ Len(heightmap) = elev_data.rows * elev_data.cols
        /\ \A r \in 0 .. elev_data.rows - 1 : \A c \in 0 .. elev_data.cols - 1 :
              heightmap[r * elev_data.cols + c + 1] = mesh.vertices[r * elev_data.cols + c + 1][2]

\* a grid of several rows and columns with differing cells, one of whose
\* scene heights is a rounded float32 (not the exact product)
C4_Witness ==
    /\ pc = "mesh"
    /\ elev_data.rows >= 2 /\ elev_data.cols >= 2
    /\ heightmap[1] # heightmap[2]
    /\ \E i \in DOMAIN heightmap :
          heightmap[i] * vert_exag[2] # (elev_data.cells[i] - GridMin(elev_data)) * vert_exag[1]

\* C5: with R = max - min as line 223 computes it,
\* compute_vertical_exaggeration returns 5.0 for R < 10, 3.0 for
\* 10 <= R < 50, 2.0 for 50 <= R < 200, 1.5 for 200 <= R < 500 and 1.0 for
\* R >= 500 (R exactly 10 gives 3.0, R exactly 50 gives 2.0); the result is
\* one of 1.0, 1.5, 2.0, 3.0, 5.0.
C5_ExaggerationSteps ==
    (pc = "exag" /\ (args_vert_exag = None \/ args_vert_exag[1] = 0)) =>
        LET R == ElevRange(elev_data)
        IN  /\ R < 10 * Unit => vert_exag = <<5, 1>>
            /\ (10 * Unit <= R /\ R < 50 * Unit) => vert_exag = <<3, 1>>
            /\ (50 * Unit <= R /\ R < 200 * Unit) => vert_exag = <<2, 1>>
            /\ (200 * Unit <= R /\ R < 500 * Unit) => vert_exag = <<3, 2>>
            /\ R >= 500 * Unit => vert_exag = <<1, 1>>
            /\ R = 10 * Unit => vert_exag = <<3, 1>>
            /\ R = 50 * Unit => vert_exag = <<2, 1>>
            /\ vert_exag \in { <<1, 1>>, <<3, 2>>, <<2, 1>>, <<3, 1>>, <<5, 1>> }

\* the factor has been computed for a grid whose range is exactly 50 m
C5_Witness ==
    /\ pc = "exag"
    /\ args_vert_exag = None
    /\ GridMax(elev_data) - GridMin(elev_data) = 50 * Unit
    /\ vert_exag = <<2, 1>>

\* 0.01 of a colour channel
ColorEps == CScale \div 100

\* the colour at the elevation and the colour 1/Unit m below it differ by
\* at most ColorEps on every channel
ColorsClose == \A k \in 1 .. 3 : Abs(col_rgb[k] - col_below[k]) <= ColorEps

\* C10 as stated: elevation_to_color is continuous at every band boundary
\* (0, 5, 30, 80, 200 and 500 m): the colour just below the boundary and the
\* colour at it differ by less than a small epsilon on each channel.
C10_ContinuousAtEveryBoundary ==
    (pc = "colored" /\ col_elev \in { b * Unit : b \in {0, 5, 30, 80, 200, 500} }) =>
        ColorsClose

\* C10 as amended: elevation_to_color is continuous at the band boundaries
\* 30, 80 and 200 m (and inside every band), and jumps at 0, 5 and 500 m.
C10_ContinuousAt30_80_200 ==
    pc = "colored" =>
        (ColorsClose <=> col_elev \notin { b * Unit : b \in {0, 5, 500} })

\* the colour at the 80 m boundary and just below it have been computed
C10_Witness ==
    /\ pc = "colored"
    /\ col_elev = 80 * Unit
    /\ col_rgb = << 50 * 3000 * Unit, 55 * 3000 * Unit, 20 * 3000 * Unit >>
    /\ col_below # col_rgb

\* C6: the four crop coordinates handed to the crop lie inside the
\* composite canvas: 0 <= px_left <= total_w, 0 <= px_right <= total_w,
\* 0 <= px_top <= total_h and 0 <= px_bottom <= total_h, also when the box
\* extends beyond the footprint of the composited tiles.
C6_CropInsideCanvas ==
    pc = "cropped" =>
        /\ 0 <= ov_crop.left /\ ov_crop.left <= ov_tiles.total_w
        /\ 0 <= ov_crop.right /\ ov_crop.right <= ov_tiles.total_w
        /\ 0 <= ov_crop.top /\ ov_crop.top <= ov_tiles.total_h
        /\ 0 <= ov_crop.bottom /\ ov_crop.bottom <= ov_tiles.total_h

\* the fetch loop of a run on SRTM tiles has ended
FetchFinished == pc \notin {"start", "bounds", "elev", "fetch"} /\ ~args.input_tif /\ bounds # None

NoOutputWritten ==
    /\ ~files.heightmap.written /\ ~files.meta.written
    /\ ~files.mesh.written /\ ~files.overlay.written

\* C7: a tile whose retrieval fails does not stop the batch: when the fetch
\* loop has ended every tile of the box has been attempted, in order; the
\* paths are exactly the tiles that did not fail; with at least one path the
\* run goes on to fusion, and with none it ends with a non-zero exit status
\* and no heightmap, metadata or mesh file written.
C7_FailedTileDoesNotStopBatch ==
    FetchFinished =>
        /\ Len(outcomes) = Len(tiles)
        /\ Len(paths) = Cardinality({ i \in 1 .. Len(outcomes) : outcomes[i] # "failed" })
        /\ \A k \in 1 .. Len(paths) :
              \E i \in 1 .. Len(tiles) :
                  paths[k][2] = TileName(tiles[i]) /\ outcomes[i] # "failed"
        /\ paths # << >> => (pc = "fusion" \/ fused)
        /\ paths = << >> =>
              /\ pc = "exited" /\ exit_code = 1
              /\ ~fused
              /\ NoOutputWritten

\* a run whose first download failed, that attempted the later tiles, fused
\* the paths it got and finished
C7_Witness ==
    /\ pc = "done"
    /\ ~args.input_tif
    /\ Len(tiles) = 4
    /\ outcomes[1] = "failed"
    /\ outcomes[4] = "downloaded"
    /\ Len(paths) = 3
    /\ fused
    /\ files.mesh.written

\* a run all of whose downloads failed: exit status 1 and nothing written
C7_NoPathsWitness ==
    /\ pc = "exited"
    /\ Len(tiles) = 2
    /\ outcomes = << "failed", "failed" >>
    /\ exit_code = 1

\* C8: when the overlay is requested and its export fails, the heightmap,
\* metadata and mesh files stay as they were written (one write each, no
\* overlay flag) and the run ends normally; the metadata holds
\* has_overlay = true only if the overlay export returned and overlay.png
\* was saved, and then from a second write of the file.
C8_OverlayFailureLeavesOutputs ==
    /\ (pc = "done" /\ overlay_result = "failed") =>
          /\ files.heightmap = [written |-> TRUE, writes |-> 1]
          /\ files.meta = FirstMeta
          /\ files.mesh = [written |-> TRUE, writes |-> 1]
          /\ exit_code = 0
    /\ (args # None /\ files.meta.has_overlay) =>
          /\ overlay_result = "ok"
          /\ files.overlay.written
          /\ files.meta.writes = 2
          /\ files.heightmap.written /\ files.mesh.written

\* a run on a local raster without a box, whose overlay therefore failed
C8_Witness ==
    /\ pc = "done"
    /\ args.overlay
    /\ overlay_result = "failed"
    /\ bounds = None
    /\ files.meta = FirstMeta
    /\ exit_code = 0

\* C9: every box a run works with has south < north and west < east,
\* whether computed or given with --bounds; an explicit box that violates
\* this is rejected before anything downstream uses it.
C9_BoxOrdered ==
    (pc \notin {"start", "bounds"} /\ bounds # None) => BoxValid(bounds)

\* the cells of the array as read that neither check flags
UnflaggedRaw == { raw[i] : i \in { j \in DOMAIN raw : ~IsSentinelCell(raw[j]) } }

\* C11: on the single-raster path and on the merge path alike, a cell equal
\* to the declared nodata value (when one is declared) and a cell <= -1000
\* are each replaced by the minimum of the cells that neither check flags,
\* the other cells are kept, and so, when at least one cell is valid, no
\* cell of the fused array equals the declared nodata value.
C11_BothChecksOnBothPaths ==
    (pc = "repaired" /\ UnflaggedRaw # {}) =>
        /\ \A i \in DOMAIN data :
              data[i] = IF IsSentinelCell(raw[i]) THEN SetMin(UnflaggedRaw) ELSE raw[i]
        /\ nodata # None => \A i \in DOMAIN data : data[i] # nodata[1]

\* C11 on the single-raster path alone (load_and_resample)
C11_SinglePathOnly ==
    fusion = "single" => C11_BothChecksOnBothPaths

\* the tile the loop of fetch_srtm_tiles is at
TileAt == TileName(tiles[idx])

\* C12: for each tile fetch_srtm_tiles asks the elevation package's cache,
\* then its own cache, then the network, and the first hit wins: the own
\* cache is used only if the first missed, a download is tried only if both
\* missed, at most one path (that of the source that hit) is appended, a
\* successful download leaves the tile in the own cache, and a tile that an
\* earlier call downloaded is served by the own cache, without a download.
C12_FirstHitWins ==
    [][ Len(outcomes') = Len(outcomes) + 1 =>
          LET o == outcomes'[Len(outcomes')]
          IN  /\ o = "elevation_cache" <=> TileAt \in elev_cache
              /\ o = "own_cache" <=> (TileAt \notin elev_cache /\ TileAt \in own_cache)
              /\ o \in {"downloaded", "failed"} <=>
                    (TileAt \notin elev_cache /\ TileAt \notin own_cache)
              /\ paths' = IF o = "failed" THEN paths
                          ELSE Append(paths, << IF o = "elevation_cache" THEN "elevation"
                                                ELSE "own", TileAt >>)
              /\ o = "downloaded" => TileAt \in own_cache'
              /\ o \in {"elevation_cache", "own_cache"} => own_cache' = own_cache
              /\ elev_cache' = elev_cache
              /\ \A k \in 1 .. Len(earlier) :
                    earlier[k][idx] = "downloaded" => o = "own_cache" ]_vars

\* a second call that found in the own cache the two tiles the first call
\* downloaded, took the third from the elevation package's cache and
\* downloaded the one the first call failed to get
C12_Witness ==
    /\ Len(earlier) = 1
    /\ earlier[1] = << "downloaded", "elevation_cache", "failed", "downloaded" >>
    /\ outcomes = << "own_cache", "elevation_cache", "downloaded", "own_cache" >>
    /\ Len(paths) = 4

====
